---- MODULE Spec2Model ----
(***************************************************************************)
(* The template router of plugins/router/template/router.go: the in-memory *)
(* route table (r.state), its mutation API, the certificate write policy,  *)
(* the Commit pipeline and the construction of the router.                 *)
(*                                                                         *)
(* Go values are modelled as follows.                                      *)
(*   - a string is a TLA+ string, len(s) > 0 is s # "";                    *)
(*   - a map is a record [nil, kv]: nil says whether the map is the nil    *)
(*     map, kv is the function from its keys to its values.  Reading a nil *)
(*     map finds nothing, delete on it does nothing, assigning into it     *)
(*     panics;                                                             *)
(*   - a panic ends the process: pc becomes "panic" and no call follows.   *)
(***************************************************************************)
EXTENDS Naturals, Sequences, FiniteSets, TLC

VARIABLES
    pc,                     \* "new" (not constructed), "ready", "failed" (constructor returned an error), "panic"
    state,                  \* r.state: unit id -> ServiceUnit
    pre,                    \* history: r.state as it was when the last call started
    last,                   \* history: the last call, its arguments and its outcome
    nops,                   \* history: number of API calls made on the constructed router
    defaultCertificate,     \* r.defaultCertificate
    defaultCertificatePath, \* r.defaultCertificatePath
    verbosity,              \* the log verbosity the process runs with (glog's -v flag)
    routeFileData,          \* the file at routeFile
    certFiles,              \* the certificate files: file id -> what was written
    configFiles             \* the rendered files: template path -> content

vars == <<pc, state, pre, last, nops, defaultCertificate, defaultCertificatePath,
          verbosity, routeFileData, certFiles, configFiles>>

-----------------------------------------------------------------------------
(* Bounds of the model *)

\* API calls explored after construction in the lifecycle specification
MaxOps == 3
\* longest endpoint list handed to AddEndpoints in the endpoint specification
MaxEndpoints == 2

-----------------------------------------------------------------------------
(* Go maps *)

EmptyFn == [k \in {} |-> ""]

NilMap == [nil |-> TRUE, kv |-> EmptyFn]

MakeMap == [nil |-> FALSE, kv |-> EmptyFn]

MapHas(m, k) == k \in DOMAIN m.kv

MapKeys(m) == DOMAIN m.kv

FnPut(f, k, v) == [j \in (DOMAIN f) \cup {k} |-> IF j = k THEN v ELSE f[j]]

FnDel(f, k) == [j \in (DOMAIN f) \ {k} |-> f[j]]

\* m[k] = v on a map that is not nil
MapSet(m, k, v) == [nil |-> FALSE, kv |-> FnPut(m.kv, k, v)]

\* delete(m, k): a no-op on a nil map and on a missing key
MapDelete(m, k) == [nil |-> m.nil, kv |-> FnDel(m.kv, k)]

-----------------------------------------------------------------------------
(* Constants of router.go *)

certDir == "/var/lib/containers/router/certs/"

defaultCertName == "default"

caCertPostfix == "_ca"

destCertPostfix == "_pod"

TLSTerminationEdge == "edge"

TLSTerminationPassthrough == "passthrough"

TLSTerminationReencrypt == "reencrypt"

-----------------------------------------------------------------------------
(* Types *)

ZeroServiceUnit == [Name |-> "", ServiceAliasConfigs |-> NilMap, EndpointTable |-> NilMap]

NoTLS == [nil |-> TRUE, Termination |-> "", Certificate |-> "", Key |-> "",
          CACertificate |-> "", DestinationCACertificate |-> ""]

NoRoute == [Namespace |-> "", Name |-> "", Host |-> "", Path |-> "", TLS |-> NoTLS]

\* errors: kind says where the error comes from, msg is the text it carries
NoError == [kind |-> "nil", msg |-> <<>>]

PanicError == [kind |-> "panic", msg |-> <<"assignment to entry in nil map">>]

NoCall == [op |-> "none", id |-> "", route |-> NoRoute, endpoints |-> <<>>,
           found |-> FALSE, chain |-> "none", file |-> "", err |-> NoError,
           steps |-> <<>>, log |-> <<>>]

Call(op, id, route, endpoints, found, chain, err) ==
    [op |-> op, id |-> id, route |-> route, endpoints |-> endpoints,
     found |-> found, chain |-> chain, file |-> "", err |-> err, steps |-> <<>>, log |-> <<>>]

-----------------------------------------------------------------------------
(* The mutation API *)

\* FindServiceUnit: v, ok = r.state[id]; v is the zero value when ok is false
FindServiceUnit(st, id) ==
    IF id \in DOMAIN st THEN [v |-> st[id], ok |-> TRUE]
    ELSE [v |-> ZeroServiceUnit, ok |-> FALSE]

NewServiceUnit(id) ==
    [Name |-> id, ServiceAliasConfigs |-> MakeMap, EndpointTable |-> MakeMap]

\* a create that keeps the unit the id already has
CreateServiceUnitKeep(id) ==
    /\ pc = "ready"
    /\ state' = IF id \in DOMAIN state THEN state ELSE FnPut(state, id, NewServiceUnit(id))
    /\ pre' = state
    /\ last' = Call("CreateServiceUnit", id, NoRoute, <<>>, id \in DOMAIN state, "none", NoError)
    /\ UNCHANGED <<pc, defaultCertificate, defaultCertificatePath, verbosity, routeFileData, certFiles, configFiles>>

CreateServiceUnit(id) ==
    /\ pc = "ready"
    /\ state' = FnPut(state, id, NewServiceUnit(id))
    /\ pre' = state
    /\ last' = Call("CreateServiceUnit", id, NoRoute, <<>>, id \in DOMAIN state, "none", NoError)
    /\ UNCHANGED <<pc, defaultCertificate, defaultCertificatePath, verbosity, routeFileData, certFiles, configFiles>>

DeleteServiceUnit(id) ==
    /\ pc = "ready"
    /\ state' = FnDel(state, id)
    /\ pre' = state
    /\ last' = Call("DeleteServiceUnit", id, NoRoute, <<>>, id \in DOMAIN state, "none", NoError)
    /\ UNCHANGED <<pc, defaultCertificate, defaultCertificatePath, verbosity, routeFileData, certFiles, configFiles>>

\* a reset that stores a new unit instead of the unit with a new table
DeleteEndpointsResetUnit(id) ==
    LET f == FindServiceUnit(state, id) IN
    /\ pc = "ready"
    /\ state' = IF ~f.ok THEN state ELSE FnPut(state, id, NewServiceUnit(id))
    /\ pre' = state
    /\ last' = Call("DeleteEndpoints", id, NoRoute, <<>>, f.ok, "none", NoError)
    /\ UNCHANGED <<pc, defaultCertificate, defaultCertificatePath, verbosity, routeFileData, certFiles, configFiles>>

DeleteEndpoints(id) ==
    LET f == FindServiceUnit(state, id) IN
    /\ pc = "ready"
    /\ state' = IF ~f.ok THEN state
                ELSE FnPut(state, id, [f.v EXCEPT !.EndpointTable = MakeMap])
    /\ pre' = state
    /\ last' = Call("DeleteEndpoints", id, NoRoute, <<>>, f.ok, "none", NoError)
    /\ UNCHANGED <<pc, defaultCertificate, defaultCertificatePath, verbosity, routeFileData, certFiles, configFiles>>

routeKey(route) == route.Namespace \o "-" \o route.Name

\* the config built without the passthrough test
AddRouteConfigAnyTermination(route) ==
    LET tls == route.TLS
        terminated == ~tls.nil /\ tls.Termination # ""
    IN  [Host |-> route.Host, Path |-> route.Path,
         TLSTermination |-> IF terminated THEN tls.Termination ELSE "",
         Certificates |-> IF terminated
                          THEN MapSet(MakeMap, route.Host,
                                   [ID |-> route.Host, Contents |-> tls.Certificate,
                                    PrivateKey |-> tls.Key])
                          ELSE NilMap]

\* the ServiceAliasConfig AddRoute builds from the route
AddRouteConfig(route) ==
    LET tls == route.TLS
        terminated == ~tls.nil /\ tls.Termination # ""
        withHost == MapSet(MakeMap, route.Host,
                       [ID |-> route.Host, Contents |-> tls.Certificate, PrivateKey |-> tls.Key])
        withCA == IF tls.CACertificate # ""
                  THEN MapSet(withHost, route.Host \o caCertPostfix,
                           [ID |-> route.Host \o caCertPostfix,
                            Contents |-> tls.CACertificate, PrivateKey |-> ""])
                  ELSE withHost
        withDest == IF tls.DestinationCACertificate # ""
                    THEN MapSet(withCA, route.Host \o destCertPostfix,
                             [ID |-> route.Host \o destCertPostfix,
                              Contents |-> tls.DestinationCACertificate, PrivateKey |-> ""])
                    ELSE withCA
    IN  [Host |-> route.Host, Path |-> route.Path,
         TLSTermination |-> IF terminated THEN tls.Termination ELSE "",
         Certificates |-> IF terminated /\ tls.Termination # TLSTerminationPassthrough
                          THEN withDest ELSE NilMap]

\* create or replace: frontend.ServiceAliasConfigs[backendKey] = config
StoreAliasIfAbsent(aliases, backendKey, config) ==
    IF MapHas(aliases, backendKey) THEN aliases ELSE MapSet(aliases, backendKey, config)

StoreAlias(aliases, backendKey, config) == MapSet(aliases, backendKey, config)

\* frontend.ServiceAliasConfigs[backendKey] = config: panics on the nil map
\* of the zero-value unit, before r.state[id] = frontend is reached
AddRoute(id, route) ==
    LET f == FindServiceUnit(state, id)
        frontend == f.v
        backendKey == routeKey(route)
        config == AddRouteConfig(route)
        panics == frontend.ServiceAliasConfigs.nil
        hadKey == MapHas(frontend.ServiceAliasConfigs, backendKey)
    IN
    /\ pc = "ready"
    /\ pc' = IF panics THEN "panic" ELSE pc
    /\ state' = IF panics THEN state
                ELSE FnPut(state, id,
                       [frontend EXCEPT !.ServiceAliasConfigs = StoreAlias(@, backendKey, config)])
    /\ pre' = state
    /\ last' = Call("AddRoute", id, route, <<>>, f.ok,
                    IF hadKey THEN "replaced" ELSE "fresh",
                    IF panics THEN PanicError ELSE NoError)
    /\ UNCHANGED <<defaultCertificate, defaultCertificatePath, verbosity, routeFileData, certFiles, configFiles>>

\* whether the call before this one was AddRoute(id, a route with the same
\* namespace and name) that returned
FollowsAdd(id, route) ==
    /\ last.op = "AddRoute"
    /\ last.err = NoError
    /\ last.id = id
    /\ last.route.Namespace = route.Namespace
    /\ last.route.Name = route.Name

\* delete(r.state[id].ServiceAliasConfigs, r.routeKey(route))
DeleteAliasKeep(aliases, backendKey) == aliases

DeleteAlias(aliases, backendKey) == MapDelete(aliases, backendKey)

RemoveRoute(id, route) ==
    LET ok == id \in DOMAIN state IN
    /\ pc = "ready"
    /\ state' = IF ~ok THEN state
                ELSE [state EXCEPT ![id].ServiceAliasConfigs = DeleteAlias(@, routeKey(route))]
    /\ pre' = state
    /\ last' = Call("RemoveRoute", id, route, <<>>, ok,
                    IF FollowsAdd(id, route) THEN "add-" \o last.chain ELSE "none", NoError)
    /\ UNCHANGED <<pc, defaultCertificate, defaultCertificatePath, verbosity, routeFileData, certFiles, configFiles>>

\* the loop of AddEndpoints over the list, on the unit's endpoint table
RECURSIVE AddEndpointsOverwrite(_, _)
AddEndpointsOverwrite(table, endpoints) ==
    IF endpoints = <<>> THEN [panic |-> FALSE, table |-> table]
    ELSE LET ep == Head(endpoints) IN
         IF table.nil THEN [panic |-> TRUE, table |-> table]
         ELSE AddEndpointsOverwrite(
                  MapSet(table, ep.ID, [ID |-> ep.ID, IP |-> ep.IP, Port |-> ep.Port]),
                  Tail(endpoints))

\* a loop that fills a fresh table instead of the unit's table
AddEndpointsReplaceTable(table, endpoints) == AddEndpointsOverwrite(MakeMap, endpoints)

RECURSIVE AddEndpointsLoop(_, _)
AddEndpointsLoop(table, endpoints) ==
    IF endpoints = <<>> THEN [panic |-> FALSE, table |-> table]
    ELSE LET ep == Head(endpoints) IN
         IF MapHas(table, ep.ID) THEN AddEndpointsLoop(table, Tail(endpoints))
         ELSE IF table.nil THEN [panic |-> TRUE, table |-> table]
         ELSE AddEndpointsLoop(
                  MapSet(table, ep.ID, [ID |-> ep.ID, IP |-> ep.IP, Port |-> ep.Port]),
                  Tail(endpoints))

AddEndpoints(id, endpoints) ==
    LET f == FindServiceUnit(state, id)
        frontend == f.v
        r == AddEndpointsLoop(frontend.EndpointTable, endpoints)
    IN
    /\ pc = "ready"
    /\ pc' = IF r.panic THEN "panic" ELSE pc
    /\ state' = IF r.panic THEN state
                ELSE FnPut(state, id, [frontend EXCEPT !.EndpointTable = r.table])
    /\ pre' = state
    /\ last' = Call("AddEndpoints", id, NoRoute, endpoints, f.ok, "none",
                    IF r.panic THEN PanicError ELSE NoError)
    /\ UNCHANGED <<defaultCertificate, defaultCertificatePath, verbosity, routeFileData, certFiles, configFiles>>

-----------------------------------------------------------------------------
(* Files and the outside world *)

\* the content of the state file or of a rendered file
FileOf(kind, st, path) == [kind |-> kind, State |-> st, DefaultCertificate |-> path]

AbsentFile == FileOf("absent", EmptyFn, "")

\* a file that exists and cannot be read (a directory, no permission)
UnreadableFile == FileOf("unreadable", EmptyFn, "")

\* a file json.Unmarshal rejects
GarbageFile == FileOf("garbage", EmptyFn, "")

\* a file a failed write left truncated
PartialFile == FileOf("partial", EmptyFn, "")

\* json.MarshalIndent(r.state): the document holding the whole route table
Document(st) == FileOf("json", st, "")

\* template.Execute(file, templateData{r.state, r.defaultCertificatePath})
Rendered(st, path) == FileOf("rendered", st, path)

\* r.templates: the output paths of the configured templates
templates == {"haproxy.config", "httpd.conf"}

\* what the reload script prints
ReloadOutput == "config test failed"

IOError(what) == [kind |-> "io", msg |-> <<what>>]

ParseError == [kind |-> "parse", msg |-> <<"invalid character">>]

\* the *exec.ExitError of cmd.CombinedOutput()
ExitError == [kind |-> "exit", msg |-> <<"exit status 1">>]

LogEntry(level, text) == [level |-> level, text |-> text]

\* the files, the steps run, the log written and the error returned so far
World(routeFile, certs, configs) ==
    [routeFile |-> routeFile, certFiles |-> certs, configFiles |-> configs,
     steps |-> <<>>, log |-> <<>>, err |-> NoError]

Perms(S) == {p \in [1..Cardinality(S) -> S] : \A i, j \in DOMAIN p : p[i] = p[j] => i = j}

-----------------------------------------------------------------------------
(* The certificate write policy *)

hasRequiredEdgeCertsContentsOnly(cfg) ==
    /\ MapHas(cfg.Certificates, cfg.Host)
    /\ cfg.Certificates.kv[cfg.Host].Contents # ""

hasRequiredEdgeCerts(cfg) ==
    /\ MapHas(cfg.Certificates, cfg.Host)
    /\ cfg.Certificates.kv[cfg.Host].Contents # ""
    /\ cfg.Certificates.kv[cfg.Host].PrivateKey # ""

\* glog.V(level).Info(msg): logged only when the verbosity reaches the level
VInfo(level, text) == IF verbosity >= level THEN <<LogEntry("info", text)>> ELSE <<>>

\* a policy that warns whether or not a default certificate is configured
shouldWriteCertsAlwaysWarn(cfg, defaultCert) ==
    IF cfg.Certificates.nil THEN [write |-> FALSE, log |-> <<>>]
    ELSE IF cfg.TLSTermination \in {TLSTerminationEdge, TLSTerminationReencrypt}
    THEN IF hasRequiredEdgeCerts(cfg) THEN [write |-> TRUE, log |-> <<>>]
         ELSE [write |-> FALSE,
               log |-> <<LogEntry("warning", <<"does not have the required certificates",
                                                cfg.TLSTermination, cfg.Host>>)>>]
    ELSE [write |-> FALSE, log |-> <<>>]

\* the answer of shouldWriteCerts and the message it logs
shouldWriteCerts(cfg, defaultCert) ==
    IF cfg.Certificates.nil THEN [write |-> FALSE, log |-> <<>>]
    ELSE IF cfg.TLSTermination \in {TLSTerminationEdge, TLSTerminationReencrypt}
    THEN IF hasRequiredEdgeCerts(cfg) THEN [write |-> TRUE, log |-> <<>>]
         ELSE LET msg == <<"does not have the required certificates",
                            cfg.TLSTermination, cfg.Host>>
              IN  [write |-> FALSE,
                   log |-> IF defaultCert # "" THEN VInfo(4, msg)
                           ELSE <<LogEntry("warning", msg)>>]
    ELSE [write |-> FALSE, log |-> <<>>]

\* the path of a route certificate file
RouteCertPath(id) == "routes/" \o id \o ".pem"

\* certManager.writeCertificatesForConfig: one file per certificate of the config
writeCertificatesForConfig(files, cfg) ==
    LET ids == MapKeys(cfg.Certificates)
        paths == {RouteCertPath(i) : i \in ids}
        idAt(p) == CHOOSE i \in ids : RouteCertPath(i) = p
    IN  [p \in (DOMAIN files) \cup paths |->
            IF p \in paths
            THEN [Contents |-> cfg.Certificates.kv[idAt(p)].Contents,
                  PrivateKey |-> cfg.Certificates.kv[idAt(p)].PrivateKey]
            ELSE files[p]]

\* a write that fails on a config whose certificates are missing
writeCertificatesStrict(w, cfg, defaultCert, io) ==
    LET d == shouldWriteCerts(cfg, defaultCert)
        w1 == [w EXCEPT !.log = @ \o d.log]
    IN  IF d.write
        THEN IF io = "ok"
             THEN [w1 EXCEPT !.certFiles = writeCertificatesForConfig(@, cfg)]
             ELSE [w1 EXCEPT !.err = IOError("write certificate")]
        ELSE IF d.log # <<>> THEN [w1 EXCEPT !.err = IOError("write certificate")]
        ELSE w1

\* io: whether the certificate manager succeeds if it is asked to write
writeCertificates(w, cfg, defaultCert, io) ==
    LET d == shouldWriteCerts(cfg, defaultCert)
        w1 == [w EXCEPT !.log = @ \o d.log]
    IN  IF d.write
        THEN IF io = "ok"
             THEN [w1 EXCEPT !.certFiles = writeCertificatesForConfig(@, cfg)]
             ELSE [w1 EXCEPT !.err = IOError("write certificate")]
        ELSE w1

-----------------------------------------------------------------------------
(* The commit pipeline.  env is what the outside world does in one Commit:  *)
(*   persist   "ok", "open" (the state file cannot be opened) or "write"    *)
(*             (it is truncated and the write fails)                        *)
(*   visits    the order in which the two range loops reach the configs     *)
(*   certFail  the visit whose certificate write fails, 0 for none          *)
(*   tplOrder  the order in which range reaches the templates               *)
(*   tplFail   the template that fails, 0 for none; tplMode "create"        *)
(*             (os.Create fails) or "execute" (template.Execute fails)      *)
(*   reload    "ok" or "exit" (the script exits non-zero)                   *)

writeState(w, st, env) ==
    LET w1 == [w EXCEPT !.steps = Append(@, "writeState")] IN
    IF env.persist = "ok" THEN [w1 EXCEPT !.routeFile = Document(st)]
    ELSE [w1 EXCEPT !.routeFile = IF env.persist = "write" THEN PartialFile ELSE @,
                    !.err = IOError("write route table"),
                    !.log = Append(@, LogEntry("error", <<"Failed to write route table">>))]

\* for _, serviceUnit := range r.state { for _, cfg := range ... }
RECURSIVE CertificateLoop(_, _, _, _, _)
CertificateLoop(w, st, defaultCert, env, i) ==
    IF i > Len(env.visits) THEN w
    ELSE LET unit == st[env.visits[i][1]]
             cfg == unit.ServiceAliasConfigs.kv[env.visits[i][2]]
             w1 == writeCertificates(w, cfg, defaultCert,
                                     IF env.certFail = i THEN "fail" ELSE "ok")
         IN  IF w1.err # NoError
             THEN [w1 EXCEPT !.log = Append(@,
                      LogEntry("error", <<"Error writing certificates for", unit.Name>>))]
             ELSE CertificateLoop(w1, st, defaultCert, env, i + 1)

\* for path, template := range r.templates
RECURSIVE TemplateLoop(_, _, _, _, _)
TemplateLoop(w, st, defaultPath, env, i) ==
    IF i > Len(env.tplOrder) THEN w
    ELSE LET path == env.tplOrder[i] IN
         IF env.tplFail = i /\ env.tplMode = "create"
         THEN [w EXCEPT !.err = IOError("create config file"),
                        !.log = Append(@, LogEntry("error", <<"Error creating config file", path>>))]
         ELSE IF env.tplFail = i
         THEN [w EXCEPT !.configFiles[path] = PartialFile,
                        !.err = IOError("execute template"),
                        !.log = Append(@, LogEntry("error", <<"Error executing template for file", path>>))]
         ELSE TemplateLoop([w EXCEPT !.configFiles[path] = Rendered(st, defaultPath)],
                           st, defaultPath, env, i + 1)

writeConfig(w, st, defaultCert, defaultPath, env) ==
    LET w1 == CertificateLoop([w EXCEPT !.steps = Append(@, "writeCertificates")],
                              st, defaultCert, env, 1)
    IN  IF w1.err # NoError THEN w1
        ELSE TemplateLoop([w1 EXCEPT !.steps = Append(@, "render")], st, defaultPath, env, 1)

\* a reload whose error is wrapped with the output
reloadRouterWrapped(w, env) ==
    LET w1 == [w EXCEPT !.steps = Append(@, "reloadRouter")] IN
    IF env.reload = "ok" THEN w1
    ELSE [w1 EXCEPT !.err = [kind |-> "exit", msg |-> <<"exit status 1", ReloadOutput>>]]

\* the error returned is the one of cmd.CombinedOutput(); the output is logged
reloadRouter(w, env) ==
    LET w1 == [w EXCEPT !.steps = Append(@, "reloadRouter")] IN
    IF env.reload = "ok" THEN w1
    ELSE [w1 EXCEPT !.err = ExitError,
                    !.log = Append(@, LogEntry("error",
                                <<"Error reloading router", ExitError.msg[1], ReloadOutput>>))]

\* a Commit that reloads whatever writeConfig returned
CommitPipelineAlwaysReload(w, st, defaultCert, defaultPath, env) ==
    LET w1 == writeState(w, st, env) IN
    IF w1.err # NoError THEN w1
    ELSE reloadRouter(writeConfig(w1, st, defaultCert, defaultPath, env), env)

\* a Commit that writes the config before it persists the state
CommitPipelineConfigFirst(w, st, defaultCert, defaultPath, env) ==
    LET w1 == writeConfig(w, st, defaultCert, defaultPath, env) IN
    IF w1.err # NoError THEN w1
    ELSE LET w2 == writeState(w1, st, env) IN
         IF w2.err # NoError THEN w2
         ELSE reloadRouter(w2, env)

CommitPipeline(w, st, defaultCert, defaultPath, env) ==
    LET w1 == writeState(w, st, env) IN
    IF w1.err # NoError THEN w1
    ELSE LET w2 == writeConfig(w1, st, defaultCert, defaultPath, env) IN
         IF w2.err # NoError THEN w2
         ELSE reloadRouter(w2, env)

\* the configs of the route table, as <<unit id, route key>>
AliasEntries(st) ==
    {e \in (DOMAIN st) \X UNION {MapKeys(st[v].ServiceAliasConfigs) : v \in DOMAIN st} :
        MapHas(st[e[1]].ServiceAliasConfigs, e[2])}

\* the orders of the nested range loops: the configs of one unit stay together
VisitOrders(st) ==
    {p \in Perms(AliasEntries(st)) :
        \A i, j, k \in DOMAIN p : (i < j /\ j < k /\ p[i][1] = p[k][1]) => p[j][1] = p[i][1]}

NoFailure(visits, tplOrder) ==
    [persist |-> "ok", visits |-> visits, certFail |-> 0,
     tplOrder |-> tplOrder, tplFail |-> 0, tplMode |-> "create", reload |-> "ok"]

\* every course one Commit of route table st can take
CommitEnvs(st, defaultCert) ==
    LET orders == VisitOrders(st)
        anyVisits == CHOOSE p \in orders : TRUE
        anyOrder == CHOOSE p \in Perms(templates) : TRUE
        writes(p, i) ==
            shouldWriteCerts(st[p[i][1]].ServiceAliasConfigs.kv[p[i][2]], defaultCert).write
    IN  {[NoFailure(anyVisits, anyOrder) EXCEPT !.persist = m] : m \in {"open", "write"}}
        \cup {[NoFailure(p, anyOrder) EXCEPT !.certFail = i] :
                 <<p, i>> \in {x \in orders \X (1..Cardinality(AliasEntries(st))) : writes(x[1], x[2])}}
        \cup {[NoFailure(x[1], x[2]) EXCEPT !.tplFail = x[3], !.tplMode = x[4]] :
                 x \in orders \X Perms(templates) \X (1..Cardinality(templates))
                        \X {"create", "execute"}}
        \cup {[NoFailure(p, anyOrder) EXCEPT !.reload = m] :
                 <<p, m>> \in orders \X {"ok", "exit"}}

Commit ==
    /\ pc = "ready"
    /\ \E env \in CommitEnvs(state, defaultCertificate) :
         LET w == CommitPipeline(World(routeFileData, certFiles, configFiles),
                                 state, defaultCertificate, defaultCertificatePath, env)
         IN  /\ routeFileData' = w.routeFile
             /\ certFiles' = w.certFiles
             /\ configFiles' = w.configFiles
             /\ last' = [NoCall EXCEPT !.op = "Commit", !.err = w.err,
                                       !.steps = w.steps, !.log = w.log]
    /\ pre' = state
    /\ UNCHANGED <<pc, state, defaultCertificate, defaultCertificatePath, verbosity>>

-----------------------------------------------------------------------------
(* Construction *)

\* the path fmt.Sprintf("%s%s.pem", certDir, defaultCertName)
DefaultCertPath == certDir \o defaultCertName \o ".pem"

\* a write that does not record the path of the file it wrote
writeDefaultCertNoPath(w, defaultCert, io) ==
    LET w1 == [w EXCEPT !.steps = Append(@, "writeDefaultCert")] IN
    IF defaultCert # ""
    THEN IF io = "ok"
         THEN [w |-> [w1 EXCEPT !.certFiles =
                         FnPut(@, DefaultCertPath, [Contents |-> defaultCert, PrivateKey |-> ""])],
               path |-> ""]
         ELSE [w |-> [w1 EXCEPT !.err = IOError("write default certificate")], path |-> ""]
    ELSE [w |-> w1, path |-> ""]

\* returns the world and r.defaultCertificatePath
writeDefaultCert(w, defaultCert, io) ==
    LET w1 == [w EXCEPT !.steps = Append(@, "writeDefaultCert")] IN
    IF defaultCert # ""
    THEN IF io = "ok"
         THEN [w |-> [w1 EXCEPT !.certFiles =
                         FnPut(@, DefaultCertPath, [Contents |-> defaultCert, PrivateKey |-> ""])],
               path |-> DefaultCertPath]
         ELSE [w |-> [w1 EXCEPT !.err = IOError("write default certificate")], path |-> ""]
    ELSE [w |-> w1, path |-> ""]

\* every error of ioutil.ReadFile leaves an empty route table and returns nil;
\* json.Unmarshal's error is returned
readState(w) ==
    LET w1 == [w EXCEPT !.steps = Append(@, "readState")] IN
    IF w.routeFile.kind = "json" THEN [w |-> w1, state |-> w.routeFile.State]
    ELSE IF w.routeFile.kind \in {"garbage", "partial"}
    THEN [w |-> [w1 EXCEPT !.err = ParseError], state |-> EmptyFn]
    ELSE [w |-> w1, state |-> EmptyFn]

newTemplateRouter ==
    /\ pc = "new"
    /\ \E io \in {"ok", "fail"} :
         LET d == writeDefaultCert(World(routeFileData, certFiles, configFiles),
                                   defaultCertificate, io)
             r == readState(d.w)
         IN  \E env \in CommitEnvs(r.state, defaultCertificate) :
               LET w == IF d.w.err # NoError THEN d.w
                        ELSE IF r.w.err # NoError THEN r.w
                        ELSE CommitPipeline(r.w, r.state, defaultCertificate, d.path, env)
               IN  /\ pc' = IF w.err # NoError THEN "failed" ELSE "ready"
                   /\ state' = IF d.w.err # NoError THEN EmptyFn ELSE r.state
                   /\ defaultCertificatePath' = d.path
                   /\ routeFileData' = w.routeFile
                   /\ certFiles' = w.certFiles
                   /\ configFiles' = w.configFiles
                   /\ last' = [NoCall EXCEPT !.op = "newTemplateRouter", !.err = w.err,
                                             !.file = routeFileData.kind,
                                             !.steps = w.steps, !.log = w.log]
    /\ pre' = state
    /\ UNCHANGED <<defaultCertificate, verbosity>>

-----------------------------------------------------------------------------
(* Inputs *)

UnitIds == {"s1", "s2"}

EndpointIDs == {"e1", "e2"}

EndpointIPs == {"10.0.0.1", "10.0.0.2"}

\* two addresses for e1, so that a later add of e1 can differ from the first
Endpoints == {e \in [ID : EndpointIDs, IP : EndpointIPs, Port : {"8080"}] :
                 e.ID = "e2" => e.IP = "10.0.0.1"}

SeqsUpTo(S, n) == UNION {[1..k -> S] : k \in 0..n}

EndpointLists == SeqsUpTo(Endpoints, MaxEndpoints)

\* every TLS block of a route: none, or any termination with any
\* combination of certificate fields set
TLSBlocks ==
    {NoTLS} \cup
    [nil : {FALSE},
     Termination : {"", TLSTerminationEdge, TLSTerminationPassthrough, TLSTerminationReencrypt},
     Certificate : {"", "CERT"}, Key : {"", "KEY"},
     CACertificate : {"", "CACERT"}, DestinationCACertificate : {"", "DESTCA"}]

RouteUnitIds == {"s1"}

\* the default verbosity, and one at which V(4) messages are logged
Verbosities == {0, 4}

EdgeTLS == [nil |-> FALSE, Termination |-> TLSTerminationEdge, Certificate |-> "CERT",
            Key |-> "KEY", CACertificate |-> "CACERT", DestinationCACertificate |-> ""]

\* every TLS block on one route, and a second route beside it in the table
RouteSpecs ==
    [Namespace : {"a"}, Name : {"c"}, Host : {"www.example.com", "example.com"}, Path : {""},
     TLS : TLSBlocks]
    \cup
    [Namespace : {"b"}, Name : {"c"}, Host : {"api.example.com"}, Path : {"/v1"},
     TLS : {NoTLS, EdgeTLS}]

\* RemoveRoute reads only the namespace and the name of its route
RouteIdents == {r \in RouteSpecs : r.TLS = NoTLS}

-----------------------------------------------------------------------------
(* A constructed router with no unit: what newTemplateRouter leaves when    *)
(* there is no default certificate and no persisted state                   *)

InitReady ==
    /\ pc = "ready"
    /\ state = EmptyFn
    /\ pre = EmptyFn
    /\ last = NoCall
    /\ nops = 0
    /\ defaultCertificate = ""
    /\ defaultCertificatePath = ""
    /\ verbosity = 0
    /\ routeFileData = Document(EmptyFn)
    /\ certFiles = EmptyFn
    /\ configFiles = [t \in templates |-> Rendered(EmptyFn, "")]

\* a call outside the lifecycle specification is not counted
Free(A) == A /\ UNCHANGED nops

(* The endpoint table: units created and deleted, endpoint lists added *)
NextEndpoints ==
    \/ \E id \in UnitIds : Free(CreateServiceUnit(id))
    \/ \E id \in UnitIds : Free(DeleteServiceUnit(id))
    \/ \E id \in UnitIds : Free(DeleteEndpoints(id))
    \/ \E id \in UnitIds, endpoints \in EndpointLists : Free(AddEndpoints(id, endpoints))

SpecEndpoints == InitReady /\ [][NextEndpoints]_vars

(* The alias table of one unit: every route added over every alias *)
NextRoute ==
    \/ \E id \in RouteUnitIds : Free(CreateServiceUnit(id))
    \/ \E id \in RouteUnitIds : Free(DeleteServiceUnit(id))
    \/ \E id \in RouteUnitIds : Free(AddEndpoints(id, <<>>))
    \/ \E id \in RouteUnitIds, route \in RouteSpecs : Free(AddRoute(id, route))
    \/ \E id \in RouteUnitIds, route \in RouteIdents : Free(RemoveRoute(id, route))

SpecRoute == InitReady /\ [][NextRoute]_vars

-----------------------------------------------------------------------------
(* The life of a router: construction over what the disk holds, then calls  *)
(* of the mutation API and Commit                                           *)

EdgeNoKeyTLS == [EdgeTLS EXCEPT !.Key = "", !.CACertificate = ""]

PassthroughTLS == [EdgeTLS EXCEPT !.Termination = TLSTerminationPassthrough]

ReencryptNoKeyTLS == [EdgeNoKeyTLS EXCEPT !.Termination = TLSTerminationReencrypt]

Route(ns, name, host, tls) ==
    [Namespace |-> ns, Name |-> name, Host |-> host, Path |-> "", TLS |-> tls]

\* two routes of one key, and two routes whose namespace and name differ
LifeRoutes ==
    {Route("a", "c", "www.example.com", EdgeTLS),
     Route("a", "c", "www.example.com", EdgeNoKeyTLS),
     Route("a-b", "c", "api.example.com", PassthroughTLS),
     Route("a", "b-c", "api.example.com", NoTLS)}

LifeIdents == {Route(r.Namespace, r.Name, "", NoTLS) : r \in LifeRoutes}

Endpoint(id, ip) == [ID |-> id, IP |-> ip, Port |-> "8080"]

LifeEndpointLists ==
    {<<>>, <<Endpoint("e1", "10.0.0.1")>>, <<Endpoint("e1", "10.0.0.2"), Endpoint("e2", "10.0.0.2")>>}

\* a route table an earlier run persisted
PersistedState ==
    [u \in {"s1"} |->
        [Name |-> "s1",
         ServiceAliasConfigs |->
            MapSet(MapSet(MakeMap, "a-c", AddRouteConfig(Route("a", "c", "www.example.com", EdgeTLS))),
                   "a-b-c", AddRouteConfig(Route("a-b", "c", "api.example.com", ReencryptNoKeyTLS))),
         EndpointTable |-> MapSet(MakeMap, "e1", Endpoint("e1", "10.0.0.1"))]]

Init ==
    /\ pc = "new"
    /\ state = EmptyFn
    /\ pre = EmptyFn
    /\ last = NoCall
    /\ nops = 0
    /\ defaultCertificate \in {"", "DEFAULT-PEM"}
    /\ defaultCertificatePath = ""
    /\ verbosity \in Verbosities
    /\ routeFileData \in {AbsentFile, UnreadableFile, GarbageFile,
                          Document(EmptyFn), Document(PersistedState)}
    /\ certFiles = EmptyFn
    /\ configFiles = [t \in templates |-> AbsentFile]

Step(A) == nops < MaxOps /\ A /\ nops' = nops + 1

Next ==
    \/ newTemplateRouter /\ UNCHANGED nops
    \/ Step(Commit)
    \/ \E id \in UnitIds : Step(CreateServiceUnit(id))
    \/ \E id \in UnitIds : Step(DeleteServiceUnit(id))
    \/ \E id \in UnitIds : Step(DeleteEndpoints(id))
    \/ \E id \in UnitIds, route \in LifeRoutes : Step(AddRoute(id, route))
    \/ \E id \in UnitIds, route \in LifeIdents : Step(RemoveRoute(id, route))
    \/ \E id \in UnitIds, endpoints \in LifeEndpointLists : Step(AddEndpoints(id, endpoints))

Spec == Init /\ [][Next]_vars

-----------------------------------------------------------------------------
(* Properties *)

Range(s) == {s[i] : i \in DOMAIN s}

\* the endpoint at the first position of the list that carries the id
FirstWith(endpoints, id) ==
    endpoints[CHOOSE i \in DOMAIN endpoints :
                 /\ endpoints[i].ID = id
                 /\ \A j \in 1..(i - 1) : endpoints[j].ID # id]

\* the alias the last call, an AddRoute, stored
StoredAlias == state[last.id].ServiceAliasConfigs.kv[routeKey(last.route)]

AddRouteReturned == last.op = "AddRoute" /\ last.found /\ last.err = NoError

(* C1: every AddEndpoints call on an existing unit keeps each endpoint the   *)
(* table already holds as it is, and stores a new id with the IP and port of *)
(* the first position of the list that carries the id: the endpoint under an *)
(* id is the one of the first insertion, never of a later one.               *)
C1_FirstWriteWins ==
    [][(last'.op = "AddEndpoints" /\ last'.found) =>
        LET old == state[last'.id].EndpointTable
            new == state'[last'.id].EndpointTable
        IN  /\ MapKeys(old) \subseteq MapKeys(new)
            /\ \A e \in MapKeys(new) :
                 new.kv[e] = IF MapHas(old, e) THEN old.kv[e]
                             ELSE [ID |-> e, IP |-> FirstWith(last'.endpoints, e).IP,
                                   Port |-> FirstWith(last'.endpoints, e).Port]]_vars

\* an AddEndpoints call returned whose list carries an id the table held
\* with another address
C1_Witness ==
    /\ last.op = "AddEndpoints" /\ last.found /\ last.err = NoError
    /\ \E i \in DOMAIN last.endpoints :
         /\ MapHas(pre[last.id].EndpointTable, last.endpoints[i].ID)
         /\ pre[last.id].EndpointTable.kv[last.endpoints[i].ID].IP # last.endpoints[i].IP

CommitOrder == <<"writeState", "writeCertificates", "render", "reloadRouter">>

\* the errors a step of Commit returns
StepErrors(step) ==
    CASE step = "writeState" -> {IOError("write route table")}
      [] step = "writeCertificates" -> {IOError("write certificate")}
      [] step = "render" -> {IOError("create config file"), IOError("execute template")}
      [] step = "reloadRouter" -> {ExitError}
      [] OTHER -> {}

\* every config of the table that shouldWriteCerts accepts has its files
CertificatesWritten ==
    \A e \in AliasEntries(state) :
        LET cfg == state[e[1]].ServiceAliasConfigs.kv[e[2]] IN
        shouldWriteCerts(cfg, defaultCertificate).write =>
            \A i \in MapKeys(cfg.Certificates) :
                /\ RouteCertPath(i) \in DOMAIN certFiles
                /\ certFiles[RouteCertPath(i)].Contents \in
                      {state[x[1]].ServiceAliasConfigs.kv[x[2]].Certificates.kv[i].Contents :
                          x \in {y \in AliasEntries(state) :
                                   MapHas(state[y[1]].ServiceAliasConfigs.kv[y[2]].Certificates, i)}}

ConfigRendered ==
    \A t \in templates : configFiles[t] = Rendered(state, defaultCertificatePath)

(* C2: a Commit runs persist, write certificates, render, reload in this     *)
(* order and stops at the first step that fails: the steps run are a prefix  *)
(* of the order, the error returned is that of the last step run, all four   *)
(* steps ran when no error is returned, and reload ran only with the state   *)
(* persisted, every certificate written and every template rendered.         *)
C2_FailFastOrder ==
    last.op = "Commit" =>
        /\ Len(last.steps) \in 1..4
        /\ last.steps = SubSeq(CommitOrder, 1, Len(last.steps))
        /\ last.err = NoError => Len(last.steps) = 4
        /\ last.err # NoError => last.err \in StepErrors(last.steps[Len(last.steps)])
        /\ "reloadRouter" \in Range(last.steps) =>
              /\ routeFileData = Document(state)
              /\ CertificatesWritten
              /\ ConfigRendered

\* a Commit stopped by a failed certificate write
C2_Witness ==
    /\ last.op = "Commit"
    /\ last.err = IOError("write certificate")
    /\ last.steps = <<"writeState", "writeCertificates">>
    /\ routeFileData = Document(state)

ReloadFailed ==
    /\ last.op = "Commit"
    /\ last.err # NoError
    /\ last.steps = CommitOrder

(* C3, as the spec states it: when the reload command exits non-zero, the    *)
(* error Commit returns contains the captured output, and the state file and *)
(* the rendered files are already updated.                                   *)
C3_ErrorCarriesOutput ==
    ReloadFailed =>
        /\ ReloadOutput \in Range(last.err.msg)
        /\ routeFileData = Document(state)
        /\ ConfigRendered

(* C3, amended: when the reload command exits non-zero, Commit returns the   *)
(* exit error of the command, which does not contain the captured output:    *)
(* the output is only logged; the state file and the rendered files are      *)
(* already updated by that Commit and stay so.                               *)
C3_ReloadFailureKeepsFiles ==
    ReloadFailed =>
        /\ last.err = ExitError
        /\ ReloadOutput \notin Range(last.err.msg)
        /\ \E i \in DOMAIN last.log :
              last.log[i].level = "error" /\ ReloadOutput \in Range(last.log[i].text)
        /\ routeFileData = Document(state)
        /\ ConfigRendered
        /\ state = pre

\* a failed reload in the Commit that follows the creation of unit s2
C3_Witness ==
    /\ ReloadFailed
    /\ nops = 2
    /\ "s2" \in DOMAIN state
    /\ routeFileData = Document(state)

(* C4: AddRoute on an id that has no unit proceeds without failing and       *)
(* leaves the route table as it was.                                         *)
C4_AddRouteMissingUnit ==
    (last.op = "AddRoute" /\ ~last.found) => (last.err = NoError /\ state = pre)

(* C5: AddEndpoints on an id that has no unit is a silent no-op for every    *)
(* list: no failure, the route table as it was, the id still not found.      *)
C5_AddEndpointsMissingUnit ==
    (last.op = "AddEndpoints" /\ ~last.found) =>
        /\ last.err = NoError
        /\ state = pre
        /\ ~FindServiceUnit(state, last.id).ok

\* the step is RemoveRoute right after an AddRoute that returned, on the
\* same unit with the same namespace and name
RemoveAfterAdd ==
    /\ AddRouteReturned
    /\ last'.op = "RemoveRoute"
    /\ last'.id = last.id
    /\ last'.route.Namespace = last.route.Namespace
    /\ last'.route.Name = last.route.Name

(* C6, as the spec states it: AddRoute then RemoveRoute with the same route  *)
(* identifiers leaves the alias map as it was before the AddRoute, also when *)
(* an alias was stored under the route key before.                           *)
C6_RemoveRestores ==
    [][RemoveAfterAdd =>
        state'[last.id].ServiceAliasConfigs = pre[last.id].ServiceAliasConfigs]_vars

(* C6, amended: AddRoute then RemoveRoute with the same route identifiers    *)
(* leaves the alias map as it was before the AddRoute less the route key:    *)
(* the map is restored when no alias was stored under the key, and an alias  *)
(* stored under it before is gone.                                           *)
C6_RemoveDropsKey ==
    [][RemoveAfterAdd =>
        /\ state'[last.id].ServiceAliasConfigs =
              MapDelete(pre[last.id].ServiceAliasConfigs, routeKey(last.route))
        /\ ~MapHas(pre[last.id].ServiceAliasConfigs, routeKey(last.route)) =>
              state'[last.id].ServiceAliasConfigs = pre[last.id].ServiceAliasConfigs]_vars

\* RemoveRoute ran right after an AddRoute that replaced an alias
C6_Witness ==
    /\ last.op = "RemoveRoute"
    /\ last.chain = "add-replaced"
    /\ MapKeys(state[last.id].ServiceAliasConfigs) # {}

(* C7: for the config AddRoute stored, shouldWriteCerts answers true exactly *)
(* when the termination is edge or reencrypt and the route's certificate and *)
(* key are both set; so false when either is empty and false for no          *)
(* termination and for passthrough, whatever the certificate fields hold.    *)
C7_ShouldWriteCerts ==
    AddRouteReturned =>
        (shouldWriteCerts(StoredAlias, defaultCertificate).write
            <=> /\ ~last.route.TLS.nil
                /\ last.route.TLS.Termination \in {TLSTerminationEdge, TLSTerminationReencrypt}
                /\ last.route.TLS.Certificate # ""
                /\ last.route.TLS.Key # "")

\* a reencrypt route with certificate and key, for which the answer is true
C7_Witness ==
    /\ AddRouteReturned
    /\ last.route.TLS.Termination = TLSTerminationReencrypt
    /\ last.route.TLS.Certificate # "" /\ last.route.TLS.Key # ""
    /\ shouldWriteCerts(StoredAlias, defaultCertificate).write

(* C8: the config AddRoute stored for a passthrough route has no certificate *)
(* entry, whatever the TLS fields of the route hold and whatever the alias   *)
(* stored under the key before held.                                         *)
C8_PassthroughNoCertificates ==
    (AddRouteReturned /\ ~last.route.TLS.nil
        /\ last.route.TLS.Termination = TLSTerminationPassthrough) =>
        /\ MapKeys(StoredAlias.Certificates) = {}
        /\ StoredAlias.TLSTermination = TLSTerminationPassthrough

\* a passthrough route with every certificate field set, stored over an alias
\* that had certificates
C8_Witness ==
    /\ AddRouteReturned
    /\ last.route.TLS.Termination = TLSTerminationPassthrough
    /\ last.route.TLS.Certificate # "" /\ last.route.TLS.Key # ""
    /\ last.route.TLS.CACertificate # "" /\ last.route.TLS.DestinationCACertificate # ""
    /\ last.chain = "replaced"
    /\ MapKeys(pre[last.id].ServiceAliasConfigs.kv[routeKey(last.route)].Certificates) # {}

\* the certificate ids the spec gives the config of a route
ExpectedCertificateIds(route) ==
    IF route.TLS.nil \/ route.TLS.Termination \in {"", TLSTerminationPassthrough} THEN {}
    ELSE {route.Host}
         \cup (IF route.TLS.CACertificate # "" THEN {route.Host \o "_ca"} ELSE {})
         \cup (IF route.TLS.DestinationCACertificate # "" THEN {route.Host \o "_pod"} ELSE {})

(* C9: after an AddRoute that returned, the alias under the route key is the *)
(* config of the route alone: host, path and termination of the route, and   *)
(* for a termination other than none and passthrough exactly the host        *)
(* certificate, the CA certificate iff the route has one, the destination CA *)
(* certificate iff the route has one; nothing of the alias stored before.    *)
C9_AliasFromRouteAlone ==
    AddRouteReturned =>
        LET route == last.route
            certs == StoredAlias.Certificates
        IN  /\ StoredAlias.Host = route.Host
            /\ StoredAlias.Path = route.Path
            /\ StoredAlias.TLSTermination = (IF route.TLS.nil THEN "" ELSE route.TLS.Termination)
            /\ MapKeys(certs) = ExpectedCertificateIds(route)
            /\ \A i \in MapKeys(certs) : certs.kv[i].ID = i
            /\ MapHas(certs, route.Host) =>
                  /\ certs.kv[route.Host].Contents = route.TLS.Certificate
                  /\ certs.kv[route.Host].PrivateKey = route.TLS.Key
            /\ MapHas(certs, route.Host \o "_ca") =>
                  /\ certs.kv[route.Host \o "_ca"].Contents = route.TLS.CACertificate
                  /\ certs.kv[route.Host \o "_ca"].PrivateKey = ""
            /\ MapHas(certs, route.Host \o "_pod") =>
                  /\ certs.kv[route.Host \o "_pod"].Contents = route.TLS.DestinationCACertificate
                  /\ certs.kv[route.Host \o "_pod"].PrivateKey = ""

\* an edge route without CA certificate stored over an alias that had one
C9_Witness ==
    /\ AddRouteReturned
    /\ last.chain = "replaced"
    /\ last.route.TLS.Termination = TLSTerminationEdge
    /\ last.route.TLS.CACertificate = ""
    /\ last.route.TLS.DestinationCACertificate # ""
    /\ MapHas(pre[last.id].ServiceAliasConfigs.kv[routeKey(last.route)].Certificates,
              last.route.Host \o "_ca")
    /\ MapKeys(StoredAlias.Certificates) = {last.route.Host, last.route.Host \o "_pod"}

(* C10: in construction only an absent state file is taken as an empty route *)
(* table without error; a state file that cannot be read or cannot be parsed *)
(* makes construction fail, and no Commit runs.                              *)
C10_OnlyAbsentFileIsEmptyState ==
    (last.op = "newTemplateRouter" /\ "readState" \in Range(last.steps)) =>
        /\ last.file = "absent" => "writeState" \in Range(last.steps)
        /\ last.file \in {"unreadable", "garbage"} =>
              /\ pc = "failed"
              /\ last.err # NoError
              /\ "writeState" \notin Range(last.steps)

\* the step is a call on the unit of the AddRoute before it, for a route whose
\* namespace and name are not both those of the route added
OtherRouteAfterAdd ==
    /\ AddRouteReturned
    /\ last'.op \in {"AddRoute", "RemoveRoute"}
    /\ last'.err = NoError
    /\ last'.id = last.id
    /\ <<last'.route.Namespace, last'.route.Name>> # <<last.route.Namespace, last.route.Name>>

(* C11: routes whose (namespace, name) pairs differ have different route     *)
(* keys, so an AddRoute or a RemoveRoute for another route of the unit       *)
(* leaves the alias of the route added before under its key as it is.        *)
C11_DistinctRouteKeys ==
    [][OtherRouteAfterAdd =>
        /\ routeKey(last'.route) # routeKey(last.route)
        /\ MapHas(state'[last.id].ServiceAliasConfigs, routeKey(last.route))
        /\ state'[last.id].ServiceAliasConfigs.kv[routeKey(last.route)] = StoredAlias]_vars

\* the endpoint ids of unit u in route table st; none when st has no unit u
EndpointIdsOf(st, u) == IF u \in DOMAIN st THEN MapKeys(st[u].EndpointTable) ELSE {}

(* C12: in every call of the mutation API an endpoint a unit holds is either *)
(* kept as it is or goes with the whole table: AddEndpoints only adds ids,   *)
(* AddRoute and RemoveRoute leave every endpoint table as it is, and an id   *)
(* is gone only when DeleteEndpoints emptied the table of its unit or the    *)
(* unit was deleted or created anew.                                         *)
C12_EndpointsAdditiveOnly ==
    [][\A u \in DOMAIN state :
        /\ \A e \in EndpointIdsOf(state, u) :
              \/ /\ e \in EndpointIdsOf(state', u)
                 /\ state'[u].EndpointTable.kv[e] = state[u].EndpointTable.kv[e]
              \/ /\ last'.op \in {"DeleteEndpoints", "CreateServiceUnit"}
                 /\ last'.id = u
                 /\ u \in DOMAIN state'
                 /\ EndpointIdsOf(state', u) = {}
              \/ /\ last'.op = "DeleteServiceUnit"
                 /\ last'.id = u
                 /\ u \notin DOMAIN state'
        /\ last'.op = "AddEndpoints" => EndpointIdsOf(state, u) \subseteq EndpointIdsOf(state', u)
        /\ last'.op \in {"AddRoute", "RemoveRoute"} =>
              (u \in DOMAIN state' /\ state'[u].EndpointTable = state[u].EndpointTable)]_vars

\* an AddEndpoints call on a unit that held e1 came back with e1 as it was
\* and e2 added, after a route was added to the unit
C12_Witness ==
    /\ last.op = "AddEndpoints" /\ last.found /\ last.err = NoError
    /\ EndpointIdsOf(pre, last.id) = {"e1"}
    /\ EndpointIdsOf(state, last.id) = {"e1", "e2"}
    /\ \E i \in DOMAIN last.endpoints :
          /\ last.endpoints[i].ID = "e1"
          /\ last.endpoints[i].IP # state[last.id].EndpointTable.kv["e1"].IP
    /\ MapKeys(state[last.id].ServiceAliasConfigs) # {}

(* C13: CreateServiceUnit on an id that has a unit overwrites the unit:      *)
(* FindServiceUnit then finds a unit named id with an empty alias map and an *)
(* empty endpoint table, whatever the unit before held, and every other unit *)
(* is as it was.                                                             *)
C13_CreateOverwrites ==
    (last.op = "CreateServiceUnit" /\ last.found) =>
        LET f == FindServiceUnit(state, last.id) IN
        /\ f.ok
        /\ f.v.Name = last.id
        /\ ~f.v.ServiceAliasConfigs.nil /\ MapKeys(f.v.ServiceAliasConfigs) = {}
        /\ ~f.v.EndpointTable.nil /\ MapKeys(f.v.EndpointTable) = {}
        /\ DOMAIN state = DOMAIN pre
        /\ \A u \in (DOMAIN state) \ {last.id} : state[u] = pre[u]

\* the unit created anew held routes and endpoints, and another unit exists
C13_Witness ==
    /\ last.op = "CreateServiceUnit" /\ last.found
    /\ MapKeys(pre[last.id].ServiceAliasConfigs) # {}
    /\ MapKeys(pre[last.id].EndpointTable) # {}
    /\ DOMAIN state # {last.id}

\* an edge or reencrypt config with a certificate map whose host certificate
\* has no contents or no key
Uncertified(cfg) ==
    /\ cfg.TLSTermination \in {TLSTerminationEdge, TLSTerminationReencrypt}
    /\ ~cfg.Certificates.nil
    /\ \/ ~MapHas(cfg.Certificates, cfg.Host)
       \/ cfg.Certificates.kv[cfg.Host].Contents = ""
       \/ cfg.Certificates.kv[cfg.Host].PrivateKey = ""

ConfigAt(st, e) == st[e[1]].ServiceAliasConfigs.kv[e[2]]

UncertifiedEntries(st) == {e \in AliasEntries(st) : Uncertified(ConfigAt(st, e))}

\* the certificate ids the configs of st that shouldWriteCerts accepts carry
WrittenIds(st, defaultCert) ==
    UNION {MapKeys(ConfigAt(st, e).Certificates) :
              e \in {x \in AliasEntries(st) : shouldWriteCerts(ConfigAt(st, x), defaultCert).write}}

\* the certificate file at path p is the same in files f and g
SameFile(f, g, p) ==
    /\ (p \in DOMAIN f) = (p \in DOMAIN g)
    /\ p \in DOMAIN f => f[p] = g[p]

(* C14: missing host certificate material never blocks a Commit.  In a       *)
(* Commit of a route table that holds an edge or reencrypt route whose host  *)
(* certificate or key is empty: no certificate file is written for that      *)
(* route, a failed certificate write is that of another route, a Commit      *)
(* that returns no error ran all four steps and rendered every template with *)
(* the route table that holds the route, and the Commit in which no I/O step *)
(* and no reload fails returns no error.                                     *)
C14_MissingCertsNeverBlock ==
    [][(last'.op = "Commit" /\ UncertifiedEntries(state) # {}) =>
        /\ \A e \in UncertifiedEntries(state) :
              \A i \in MapKeys(ConfigAt(state, e).Certificates) \ WrittenIds(state, defaultCertificate) :
                  SameFile(certFiles, certFiles', RouteCertPath(i))
        /\ last'.err = IOError("write certificate") => WrittenIds(state, defaultCertificate) # {}
        /\ last'.err = NoError =>
              /\ last'.steps = CommitOrder
              /\ \A t \in templates : configFiles'[t] = Rendered(state, defaultCertificatePath)
              /\ UncertifiedEntries(configFiles'[CHOOSE t \in templates : TRUE].State)
                    = UncertifiedEntries(state)
        /\ \A p \in VisitOrders(state), o \in Perms(templates) :
              LET w == CommitPipeline(World(routeFileData, certFiles, configFiles), state,
                                      defaultCertificate, defaultCertificatePath, NoFailure(p, o))
              IN  w.err = NoError /\ w.steps = CommitOrder]_vars

\* a Commit of a table whose only route is an edge route without key returned
\* no error, rendered the table and wrote no certificate for the route
C14_Witness ==
    /\ last.op = "Commit" /\ last.err = NoError
    /\ UncertifiedEntries(state) # {}
    /\ UncertifiedEntries(state) = AliasEntries(state)
    /\ \A t \in templates : configFiles[t] = Rendered(state, defaultCertificatePath)
    /\ \A e \in UncertifiedEntries(state) :
          RouteCertPath(ConfigAt(state, e).Host) \notin DOMAIN certFiles

IsDiagnostic(entry) == entry.level \in {"info", "warning"}

\* the messages below error severity the last call logged
Diagnostics == SelectSeq(last.log, IsDiagnostic)

\* the call ran the certificate loop of writeConfig over the whole route table
RanCertificateLoop ==
    /\ last.op \in {"Commit", "newTemplateRouter"}
    /\ "render" \in Range(last.steps)

\* the diagnostics logged for the termination and host of cfg
DiagnosticsFor(cfg) ==
    {i \in DOMAIN Diagnostics :
        Diagnostics[i].text = <<"does not have the required certificates",
                                cfg.TLSTermination, cfg.Host>>}

\* the uncertified configs of the route table with the termination and host of cfg
UncertifiedLike(cfg) ==
    {e \in UncertifiedEntries(state) :
        /\ ConfigAt(state, e).TLSTermination = cfg.TLSTermination
        /\ ConfigAt(state, e).Host = cfg.Host}

ConstructionOrder == <<"writeDefaultCert", "readState">> \o CommitOrder

\* the default-certificate path of a router configured with defaultCertificate
ExpectedDefaultPath == IF defaultCertificate # "" THEN DefaultCertPath ELSE ""

(* C16: construction runs write default certificate, load persisted state,   *)
(* initial Commit in this order; the default certificate file is written     *)
(* exactly when a default certificate is configured; a failed write of it    *)
(* ends construction with the state file not read and not written, nothing   *)
(* rendered and no reload; and every Commit renders with the path of the     *)
(* written default certificate when one is configured and with the empty     *)
(* string otherwise.                                                         *)
C16_ConstructionOrder ==
    /\ last.op = "newTemplateRouter" =>
          /\ Len(last.steps) \in 1..Len(ConstructionOrder)
          /\ last.steps = SubSeq(ConstructionOrder, 1, Len(last.steps))
          /\ last.err = NoError => last.steps = ConstructionOrder
          /\ last.err = IOError("write default certificate") =>
                /\ defaultCertificate # ""
                /\ last.steps = <<"writeDefaultCert">>
                /\ pc = "failed"
                /\ state = EmptyFn
                /\ routeFileData.kind = last.file
                /\ \A t \in templates : configFiles[t] = AbsentFile
                /\ certFiles = EmptyFn
          /\ "readState" \in Range(last.steps) =>
                /\ (DefaultCertPath \in DOMAIN certFiles) <=> (defaultCertificate # "")
                /\ defaultCertificate # "" =>
                      certFiles[DefaultCertPath].Contents = defaultCertificate
    /\ pc = "ready" => defaultCertificatePath = ExpectedDefaultPath
    /\ (last.op \in {"Commit", "newTemplateRouter"} /\ "render" \in Range(last.steps)) =>
          \A t \in templates :
              configFiles[t].kind = "rendered" =>
                  configFiles[t].DefaultCertificate = ExpectedDefaultPath

\* construction over a persisted route table ended by the failed write of the
\* default certificate
C16_Witness ==
    /\ last.op = "newTemplateRouter"
    /\ last.err = IOError("write default certificate")
    /\ last.file = "json"
    /\ routeFileData = Document(PersistedState)
    /\ pc = "failed"

\* the route certificate files: every certificate file but the default one
RouteCertFiles(files) == [p \in (DOMAIN files) \ {DefaultCertPath} |-> files[p]]

\* a certificate of a config of route table st, as the file it is written to
CertificateFilesOf(st) ==
    {<<RouteCertPath(i), [Contents |-> ConfigAt(st, e).Certificates.kv[i].Contents,
                          PrivateKey |-> ConfigAt(st, e).Certificates.kv[i].PrivateKey]>> :
        <<e, i>> \in {x \in AliasEntries(st) \X UNION {MapKeys(ConfigAt(st, y).Certificates) :
                                                          y \in AliasEntries(st)} :
                         MapHas(ConfigAt(st, x[1]).Certificates, x[2])}}

(* C17: in every Commit, that of construction included, a route certificate  *)
(* file or a config file is written, and the reload is invoked, only after   *)
(* that Commit persisted the route table in memory, and what is written is   *)
(* taken from that route table; a Commit whose persist step fails leaves     *)
(* every route certificate file and every config file as it was and invokes  *)
(* no reload.                                                                *)
C17_PersistBeforeConfig ==
    [][last'.op \in {"Commit", "newTemplateRouter"} =>
        /\ (\/ RouteCertFiles(certFiles') # RouteCertFiles(certFiles)
            \/ configFiles' # configFiles
            \/ "reloadRouter" \in Range(last'.steps)) =>
              /\ "writeState" \in Range(last'.steps)
              /\ routeFileData' = Document(state')
        /\ \A t \in templates :
              configFiles'[t] # configFiles[t] =>
                  configFiles'[t] \in {Rendered(state', defaultCertificatePath'), PartialFile}
        /\ \A p \in DOMAIN RouteCertFiles(certFiles') :
              ~SameFile(certFiles, certFiles', p) =>
                  <<p, certFiles'[p]>> \in CertificateFilesOf(state')
        /\ last'.err = IOError("write route table") =>
              /\ last'.steps[Len(last'.steps)] = "writeState"
              /\ RouteCertFiles(certFiles') = RouteCertFiles(certFiles)
              /\ configFiles' = configFiles]_vars

\* a Commit after a change of the route table failed to persist: the config
\* files still hold the route table of the Commit before
C17_Witness ==
    /\ last.op = "Commit"
    /\ last.err = IOError("write route table")
    /\ routeFileData # Document(state)
    /\ \A t \in templates :
          /\ configFiles[t].kind = "rendered"
          /\ configFiles[t].State # state

(* C18: every unit the route table holds under key k is named k and has an   *)
(* alias map and an endpoint table that are not nil, so AddRoute and         *)
(* AddEndpoints on an id FindServiceUnit finds do not fail.                  *)
C18_UnitsWellFormed ==
    /\ \A k \in DOMAIN state :
          /\ state[k].Name = k
          /\ ~state[k].ServiceAliasConfigs.nil
          /\ ~state[k].EndpointTable.nil
    /\ (last.op \in {"AddRoute", "AddEndpoints"} /\ last.found) => last.err = NoError

\* every unit but that of id is the same in st1 and st2
OthersUnchanged(st1, st2, id) ==
    /\ (DOMAIN st2) \ {id} = (DOMAIN st1) \ {id}
    /\ \A u \in (DOMAIN st1) \ {id} : st2[u] = st1[u]

(* C19: a call on an id that has a unit changes that unit and its own table  *)
(* only: AddRoute and RemoveRoute leave the endpoint table of the unit and   *)
(* every other unit as they are, AddEndpoints and DeleteEndpoints leave the  *)
(* alias map of the unit and every other unit as they are, DeleteServiceUnit *)
(* leaves every other unit as it is, and a Commit, failed or not, leaves the *)
(* route table as it is.                                                     *)
C19_FrameOfMutations ==
    [][/\ (last'.op \in {"AddRoute", "RemoveRoute"} /\ last'.found) =>
              /\ last'.id \in DOMAIN state'
              /\ state'[last'.id].EndpointTable = state[last'.id].EndpointTable
              /\ state'[last'.id].Name = state[last'.id].Name
              /\ OthersUnchanged(state, state', last'.id)
       /\ (last'.op \in {"AddEndpoints", "DeleteEndpoints"} /\ last'.found) =>
              /\ last'.id \in DOMAIN state'
              /\ state'[last'.id].ServiceAliasConfigs = state[last'.id].ServiceAliasConfigs
              /\ state'[last'.id].Name = state[last'.id].Name
              /\ OthersUnchanged(state, state', last'.id)
       /\ (last'.op = "DeleteServiceUnit" /\ last'.found) =>
              /\ last'.id \notin DOMAIN state'
              /\ OthersUnchanged(state, state', last'.id)
       /\ last'.op = "Commit" => state' = state]_vars

\* DeleteEndpoints emptied the endpoint table of a unit that holds routes,
\* with another unit beside it
C19_Witness ==
    /\ last.op = "DeleteEndpoints" /\ last.found
    /\ MapKeys(pre[last.id].EndpointTable) # {}
    /\ MapKeys(state[last.id].EndpointTable) = {}
    /\ MapKeys(state[last.id].ServiceAliasConfigs) # {}
    /\ DOMAIN state # {last.id}

====
